---------------------------- MODULE Spec2Model ----------------------------
(***************************************************************************)
(* Model of src/app.py: the log-bloom membership test (bloom_indexes,      *)
(* bloom_check), the header-field conversion, and the command-line run     *)
(* (main) with its consistency messages.                                   *)
(*                                                                         *)
(* A Python int is unbounded; it is represented here by the set of the     *)
(* positions of its 1 bits (position 0 = least significant), so that a     *)
(* 2048-bit field and a wider one are both values of the model.  Small     *)
(* integers (bytes, 16-bit words) are ordinary naturals.                   *)
(***************************************************************************)
EXTENDS Integers, Sequences, FiniteSets, TLC

VARIABLES
    keccak,       \* Web3.keccak as a table: candidate bytes -> 32 hash bytes
    logsBloom,    \* header.logsBloom: the field as a sequence of bytes
    inserted,     \* candidates whose bits the chain set in the field
    noise,        \* other bit positions set in the field
    pc,           \* position of the run
    bloom_int,    \* main: bloom_int (set of 1-bit positions)
    last,         \* the last membership test and its outcome, or NoCheck
    lib_bare_ok,  \* whether Web3.to_checksum_address takes an unprefixed address
    args,         \* main: the parsed command line
    addr_ok,      \* main: addr_ok (None, Some(TRUE) or Some(FALSE))
    topic_ok,     \* main: topic_ok (None, Some(TRUE) or Some(FALSE))
    count,        \* main: count (None until fetched)
    out,          \* main: the lines printed, in order
    exit_code     \* main: "running", or the exit status

coreVars == <<keccak, logsBloom, inserted, noise, pc, bloom_int, last>>
mainVars == <<lib_bare_ok, args, addr_ok, topic_ok, count, out, exit_code>>
vars == <<coreVars, mainVars>>

(***************************************************************************)
(* Program constants                                                       *)
(***************************************************************************)
\* a mask one bit too wide
IndexMaskWide == 2 * 2047 + 1

IndexMask == 2047
NumIndexes == 3
FieldBytes == 256
FieldBits == 8 * FieldBytes

(***************************************************************************)
(* Bounds of the model                                                     *)
(***************************************************************************)
MaxInserts == 2
MaxNoise == 1
MaxCount == 3

(***************************************************************************)
(* Integer plumbing                                                        *)
(***************************************************************************)
Pow2(k) == 2 ^ k

\* bit k of a small natural n
BitOf(n, k) == (n \div Pow2(k)) % 2

\* a & b, a | b on naturals below 2^w, bit by bit
RECURSIVE BitAnd(_, _)
BitAnd(a, b) ==
    IF a = 0 \/ b = 0 THEN 0
    ELSE (a % 2) * (b % 2) + 2 * BitAnd(a \div 2, b \div 2)

RECURSIVE BitOr(_, _)
BitOr(a, b) ==
    IF a = 0 THEN b
    ELSE IF b = 0 THEN a
    ELSE (IF a % 2 = 1 \/ b % 2 = 1 THEN 1 ELSE 0) + 2 * BitOr(a \div 2, b \div 2)

\* a << k on naturals
ShiftLeftNat(a, k) == a * Pow2(k)

\* a shift that is one position short
ShiftRightShort(n, k) == {b - k + 1 : b \in {x \in n : x >= k - 1}}

\* the unbounded int n (a set of bit positions) shifted right by k
ShiftRight(n, k) == {b - k : b \in {x \in n : x >= k}}

\* n & 1 for an unbounded int n
And1(n) == IF 0 \in n THEN 1 ELSE 0

\* the unbounded int n << k
ShiftLeft(n, k) == {x + k : x \in n}

\* a byte as an unbounded int
ByteInt(b) == {k \in 0..7 : BitOf(b, k) = 1}

\* int.from_bytes(bs[lo..hi], "big"): the bytes before the middle are the more
\* significant ones, so their value is shifted past the bytes after it
RECURSIVE FromBytesRange(_, _, _)
FromBytesRange(bs, lo, hi) ==
    IF lo > hi THEN {}
    ELSE IF lo = hi THEN ByteInt(bs[lo])
    ELSE LET mid == (lo + hi) \div 2
         IN  ShiftLeft(FromBytesRange(bs, lo, mid), 8 * (hi - mid))
                 \cup FromBytesRange(bs, mid + 1, hi)

\* the first byte taken as the least significant one
FromBytesLittle(bs) ==
    UNION {ShiftLeft(ByteInt(bs[i]), 8 * (i - 1)) : i \in 1..Len(bs)}

from_bytes_big(bs) == FromBytesRange(bs, 1, Len(bs))

(***************************************************************************)
(* Candidates and the hash                                                 *)
(***************************************************************************)
Rep(n, b) == [i \in 1..n |-> b]

EmptyBytes == <<>>
AddrBytesA == Rep(20, 170)
TopicBytesA == Rep(32, 17)

Candidates == {EmptyBytes, AddrBytesA, TopicBytesA}

\* a 32-byte digest with the given first six bytes
Digest(six) == six \o Rep(26, 171)

H1 == Digest(<<0, 5, 3, 132, 7, 208>>)       \* 5, 900, 2000
H2 == Digest(<<248, 5, 251, 132, 0, 5>>)     \* 5, 900, 5 after the mask
H3 == Digest(<<255, 255, 8, 0, 7, 208>>)     \* 2047, 0, 2000
H4 == Digest(<<8, 0, 8, 0, 8, 0>>)           \* 0, 0, 0 (2048 each before the mask)

HashSamples == {H1, H2, H3, H4}

(***************************************************************************)
(* bloom_indexes, bloom_check                                              *)
(***************************************************************************)
\* h[2*i] and h[2*i+1] of the source are h[2*i+1] and h[2*i+2] here (1-based)

\* the derivation with a remainder by the mask in place of the mask
bloom_indexes_rem(h) ==
    [i \in 1..NumIndexes |->
        BitOr(ShiftLeftNat(h[2 * (i - 1) + 1], 8), h[2 * (i - 1) + 2]) % IndexMask]

\* the derivation with the mask left out
bloom_indexes_nomask(h) ==
    [i \in 1..NumIndexes |-> BitOr(ShiftLeftNat(h[2 * (i - 1) + 1], 8), h[2 * (i - 1) + 2])]

bloom_indexes_h(h) ==
    [i \in 1..NumIndexes |->
        BitAnd(BitOr(ShiftLeftNat(h[2 * (i - 1) + 1], 8), h[2 * (i - 1) + 2]), IndexMask)]

bloom_indexes(data) == bloom_indexes_h(keccak[data])

\* a loop that answers on the first index alone
BloomCheckFirst(field, idxs, k) ==
    IF k > Len(idxs) THEN TRUE
    ELSE And1(ShiftRight(field, idxs[k])) = 1

\* the loop of bloom_check from the k-th index on
RECURSIVE BloomCheckFrom(_, _, _)
BloomCheckFrom(field, idxs, k) ==
    IF k > Len(idxs) THEN TRUE
    ELSE IF And1(ShiftRight(field, idxs[k])) = 0 THEN FALSE
    ELSE BloomCheckFrom(field, idxs, k + 1)

bloom_check(field, data) == BloomCheckFrom(field, bloom_indexes(data), 1)

(***************************************************************************)
(* The chain's side: the field of a block.  The chain sets, for each       *)
(* logged address and topic, the three bits given by the low 11 bits of    *)
(* the first three byte pairs of its hash; bit p of the field lives in     *)
(* byte Len - p \div 8 (1-based), at bit p % 8 of that byte.               *)
(***************************************************************************)
ChainIndexes(h) == {(h[2 * i - 1] * 256 + h[2 * i]) % 2048 : i \in 1..3}

SetBit(bs, p) ==
    LET at == Len(bs) - (p \div 8)
    IN  IF at < 1 THEN bs
        ELSE [bs EXCEPT ![at] = BitOr(bs[at], Pow2(p % 8))]

RECURSIVE SetBits(_, _)
SetBits(bs, ps) ==
    IF ps = {} THEN bs
    ELSE LET p == CHOOSE x \in ps : TRUE
         IN  SetBits(SetBit(bs, p), ps \ {p})

\* bit positions the chain may have set besides those of the inserted candidates
NoiseBits == {0, FieldBits - 1, FieldBits}

\* a provider's header field: FieldBytes bytes, or one byte too many
HeaderLengths == {FieldBytes, FieldBytes + 1}

\* Python's None, and a value that is not None
None == <<>>
Some(v) == <<v>>

NoCheck == [checked |-> FALSE, data |-> <<>>, idxs |-> <<>>, raised |-> FALSE, res |-> FALSE]

MainIdle ==
    /\ lib_bare_ok = FALSE
    /\ args = [address |-> None, topic0 |-> None, verify |-> FALSE]
    /\ addr_ok = None
    /\ topic_ok = None
    /\ count = None
    /\ out = <<>>
    /\ exit_code = "running"

(***************************************************************************)
(* SpecBloom: the field is built, read as in main, then tested             *)
(***************************************************************************)
InitBloom ==
    /\ keccak \in [Candidates -> HashSamples]
    /\ \E n \in HeaderLengths : logsBloom = Rep(n, 0)
    /\ inserted = {}
    /\ noise = {}
    /\ pc = "build"
    /\ bloom_int = {}
    /\ last = NoCheck
    /\ MainIdle

Insert(c) ==
    /\ pc = "build"
    /\ c \notin inserted
    /\ Cardinality(inserted) < MaxInserts
    /\ logsBloom' = SetBits(logsBloom, ChainIndexes(keccak[c]))
    /\ inserted' = inserted \cup {c}
    /\ UNCHANGED <<keccak, noise, pc, bloom_int, last, mainVars>>

Noise(p) ==
    /\ pc = "build"
    /\ p \notin noise
    /\ p < 8 * Len(logsBloom)
    /\ Cardinality(noise) < MaxNoise
    /\ logsBloom' = SetBit(logsBloom, p)
    /\ noise' = noise \cup {p}
    /\ UNCHANGED <<keccak, inserted, pc, bloom_int, last, mainVars>>

\* main, lines 87-88
ReadField ==
    /\ pc = "build"
    /\ bloom_int' = from_bytes_big(logsBloom)
    /\ pc' = "query"
    /\ UNCHANGED <<keccak, logsBloom, inserted, noise, last, mainVars>>

Check(d) ==
    /\ pc = "query"
    /\ last' = [checked |-> TRUE, data |-> d, idxs |-> bloom_indexes(d),
                raised |-> FALSE, res |-> bloom_check(bloom_int, d)]
    /\ UNCHANGED <<keccak, logsBloom, inserted, noise, pc, bloom_int, mainVars>>

NextBloom ==
    \/ \E c \in Candidates : Insert(c)
    \/ \E p \in NoiseBits : Noise(p)
    \/ ReadField
    \/ \E d \in Candidates : Check(d)

SpecBloom == InitBloom /\ [][NextBloom]_vars

(***************************************************************************)
(* Text: a string is a sequence of one-character strings.  The samples     *)
(* use lower-case digits and no white space.                               *)
(***************************************************************************)
RepC(n, ch) == [i \in 1..n |-> ch]
Prefix0x == <<"0", "x">>

HexDigits == {"0", "1", "2", "3", "4", "5", "6", "7", "8", "9",
              "a", "b", "c", "d", "e", "f"}

HexVal(ch) ==
    CASE ch = "0" -> 0 [] ch = "1" -> 1 [] ch = "2" -> 2 [] ch = "3" -> 3
      [] ch = "4" -> 4 [] ch = "5" -> 5 [] ch = "6" -> 6 [] ch = "7" -> 7
      [] ch = "8" -> 8 [] ch = "9" -> 9 [] ch = "a" -> 10 [] ch = "b" -> 11
      [] ch = "c" -> 12 [] ch = "d" -> 13 [] ch = "e" -> 14 [] ch = "f" -> 15

Raised == [ok |-> FALSE, val |-> <<>>]
Returned(v) == [ok |-> TRUE, val |-> v]

\* s.startswith(prefix)
startswith(s, prefix) ==
    /\ Len(s) >= Len(prefix)
    /\ SubSeq(s, 1, Len(prefix)) = prefix

\* s[2:]
From2(s) == SubSeq(s, 3, Len(s))

IsHex(h) == \A i \in 1..Len(h) : h[i] \in HexDigits

\* bytes.fromhex(h): ValueError on a non-hex character or an odd length
fromhex(h) ==
    IF ~IsHex(h) \/ Len(h) % 2 = 1 THEN Raised
    ELSE Returned([i \in 1..(Len(h) \div 2) |->
                      16 * HexVal(h[2 * i - 1]) + HexVal(h[2 * i])])

\* parse_hex; kind only names the argument in the error message
parse_hex(s, kind) ==
    IF ~startswith(s, Prefix0x) THEN Raised
    ELSE fromhex(From2(s))

\* Web3.to_checksum_address(s): the address as 0x and 40 hex digits, or an
\* error.  (The letters' case, which bytes.fromhex ignores, is left as it is.)
to_checksum_address(s) ==
    LET digits == IF startswith(s, Prefix0x) THEN From2(s) ELSE s
    IN  IF ~startswith(s, Prefix0x) /\ ~lib_bare_ok THEN Raised
        ELSE IF IsHex(digits) /\ Len(digits) = 40 THEN Returned(Prefix0x \o digits)
        ELSE Raised

\* Python's truth value of an optional string
Truthy(a) == a # None /\ a[1] # <<>>

AddrGood == Prefix0x \o RepC(40, "a")
AddrNoPrefix == RepC(40, "a")
AddrBadHex == Prefix0x \o RepC(40, "g")
AddrShort == Prefix0x \o RepC(4, "a")

TopicGood == Prefix0x \o RepC(64, "1")
TopicNoPrefix == RepC(64, "1")
TopicBadHex == Prefix0x \o RepC(64, "g")
TopicOdd == Prefix0x \o RepC(63, "1")
TopicShort == Prefix0x \o <<"1", "2", "3", "4">>
TopicNoDigits == Prefix0x

AddressArgs == {None, Some(<<>>), Some(AddrGood), Some(AddrNoPrefix),
                Some(AddrBadHex), Some(AddrShort)}
TopicArgs == {None, Some(<<>>), Some(TopicGood), Some(TopicNoPrefix), Some(TopicBadHex),
              Some(TopicOdd), Some(TopicShort), Some(TopicNoDigits)}

ShortBytes == <<18, 52>>
MainByteStrings == {AddrBytesA, TopicBytesA, ShortBytes, EmptyBytes}

MainTables ==
    { (AddrBytesA :> H1) @@ (TopicBytesA :> H3) @@ (ShortBytes :> H2) @@ (EmptyBytes :> H4),
      (AddrBytesA :> H3) @@ (TopicBytesA :> H2) @@ (ShortBytes :> H4) @@ (EmptyBytes :> H1) }

(***************************************************************************)
(* main                                                                    *)
(***************************************************************************)
Printed(m) == \E i \in 1..Len(out) : out[i] = m

\* line 119, with "or" read as "and"
ViolationFlagBoth(a, t, n) == (a = Some(FALSE) /\ t = Some(FALSE)) /\ n > 0

\* line 119
ViolationFlag(a, t, n) == (a = Some(FALSE) \/ t = Some(FALSE)) /\ n > 0

\* line 121, without the test of the count
FalsePositiveFlagAnyCount(a, t, n) == a = Some(TRUE) \/ t = Some(TRUE)

\* line 121, asking that no candidate be absent
FalsePositiveFlagNoneAbsent(a, t, n) ==
    (a # Some(FALSE) /\ t # Some(FALSE)) /\ n = 0

\* line 121
FalsePositiveFlag(a, t, n) == (a = Some(TRUE) \/ t = Some(TRUE)) /\ n = 0

Init ==
    /\ keccak \in MainTables
    /\ inserted \in {S \in SUBSET MainByteStrings : Cardinality(S) <= MaxInserts}
    /\ noise = {}
    /\ logsBloom = SetBits(Rep(FieldBytes, 0), UNION {ChainIndexes(keccak[c]) : c \in inserted})
    /\ pc = "start"
    /\ bloom_int = {}
    /\ last = NoCheck
    /\ lib_bare_ok \in BOOLEAN
    /\ args \in [address : AddressArgs, topic0 : TopicArgs, verify : BOOLEAN]
    /\ addr_ok = None
    /\ topic_ok = None
    /\ count = None
    /\ out = <<>>
    /\ exit_code = None

\* sys.exit(code) after printing msg
Exit(msg, code) ==
    /\ out' = Append(out, msg)
    /\ exit_code' = Some(code)
    /\ pc' = "exit"

\* lines 73-75
CheckArgs ==
    /\ pc = "start"
    /\ IF ~Truthy(args.address) /\ ~Truthy(args.topic0)
       THEN Exit("need_candidate", 1)
       ELSE pc' = "connect" /\ UNCHANGED <<out, exit_code>>
    /\ UNCHANGED <<keccak, logsBloom, inserted, noise, bloom_int, last,
                   lib_bare_ok, args, addr_ok, topic_ok, count>>

\* lines 77-78 and connect (37-42): the node answers or does not
Connect ==
    /\ pc = "connect"
    /\ \/ Exit("connect_failed", 1)
       \/ /\ out' = Append(out, "connected")
          /\ pc' = "get_block"
          /\ UNCHANGED exit_code
    /\ UNCHANGED <<keccak, logsBloom, inserted, noise, bloom_int, last,
                   lib_bare_ok, args, addr_ok, topic_ok, count>>

\* lines 80-88
GetBlock ==
    /\ pc = "get_block"
    /\ \/ Exit("block_failed", 2) /\ UNCHANGED bloom_int
       \/ /\ bloom_int' = from_bytes_big(logsBloom)
          /\ pc' = "address"
          /\ UNCHANGED <<out, exit_code>>
    /\ UNCHANGED <<keccak, logsBloom, inserted, noise, last,
                   lib_bare_ok, args, addr_ok, topic_ok, count>>

\* lines 93-99
CheckAddress ==
    /\ pc = "address"
    /\ IF Truthy(args.address)
       THEN LET r == to_checksum_address(args.address[1])
            IN  IF ~r.ok
                THEN Exit("invalid_address", 1) /\ UNCHANGED addr_ok
                ELSE /\ addr_ok' = Some(bloom_check(bloom_int, fromhex(From2(r.val)).val))
                     /\ pc' = "topic"
                     /\ UNCHANGED <<out, exit_code>>
       ELSE pc' = "topic" /\ UNCHANGED <<addr_ok, out, exit_code>>
    /\ UNCHANGED <<keccak, logsBloom, inserted, noise, bloom_int, last,
                   lib_bare_ok, args, topic_ok, count>>

\* lines 101-107
CheckTopic ==
    /\ pc = "topic"
    /\ IF Truthy(args.topic0)
       THEN LET r == parse_hex(args.topic0[1], "topic0")
            IN  IF ~r.ok
                THEN Exit("invalid_topic0", 1) /\ UNCHANGED topic_ok
                ELSE /\ topic_ok' = Some(bloom_check(bloom_int, r.val))
                     /\ pc' = "report"
                     /\ UNCHANGED <<out, exit_code>>
       ELSE pc' = "report" /\ UNCHANGED <<topic_ok, out, exit_code>>
    /\ UNCHANGED <<keccak, logsBloom, inserted, noise, bloom_int, last,
                   lib_bare_ok, args, addr_ok, count>>

\* lines 109-113
Report ==
    /\ pc = "report"
    /\ out' = out \o <<"block">>
                  \o (IF Truthy(args.address)
                      THEN <<IF addr_ok = Some(TRUE) THEN "address_present"
                                                     ELSE "address_not_set">>
                      ELSE <<>>)
                  \o (IF Truthy(args.topic0)
                      THEN <<IF topic_ok = Some(TRUE) THEN "topic0_present"
                                                      ELSE "topic0_not_set">>
                      ELSE <<>>)
    /\ pc' = "verify"
    /\ UNCHANGED <<keccak, logsBloom, inserted, noise, bloom_int, last,
                   lib_bare_ok, args, addr_ok, topic_ok, count, exit_code>>

\* lines 117-122 once fetch_logs_count (50-60) has returned n
Classify(n) ==
    /\ count' = Some(n)
    /\ out' = out \o <<"count">>
                  \o (IF ViolationFlag(addr_ok, topic_ok, n) THEN <<"violation">> ELSE <<>>)
                  \o (IF FalsePositiveFlag(addr_ok, topic_ok, n)
                      THEN <<"false_positive">> ELSE <<>>)
                  \o <<"elapsed">>

\* lines 115-126
Verify ==
    /\ pc = "verify"
    /\ IF args.verify
       THEN \/ \E n \in 0..MaxCount : Classify(n)
            \/ out' = out \o <<"fetch_failed", "elapsed">> /\ UNCHANGED count
       ELSE out' = Append(out, "elapsed") /\ UNCHANGED count
    /\ exit_code' = Some(0)
    /\ pc' = "exit"
    /\ UNCHANGED <<keccak, logsBloom, inserted, noise, bloom_int, last,
                   lib_bare_ok, args, addr_ok, topic_ok>>

Next ==
    \/ CheckArgs
    \/ Connect
    \/ GetBlock
    \/ CheckAddress
    \/ CheckTopic
    \/ Report
    \/ Verify

Spec == Init /\ [][Next]_vars

(***************************************************************************)
(* Properties of the run (Spec)                                            *)
(***************************************************************************)
\* a run with --verify whose log count was fetched
Verified == pc = "exit" /\ args.verify /\ count # None
AnyAbsent == addr_ok = Some(FALSE) \/ topic_ok = Some(FALSE)
AnyPresent == addr_ok = Some(TRUE) \/ topic_ok = Some(TRUE)

\* C4: in a verified run, a tested candidate reported absent together with a
\* count above zero gives the soundness-violation warning, whichever
\* candidates were supplied and whatever the other one's result.
C4_ViolationReported ==
    (Verified /\ AnyAbsent /\ count[1] > 0) => Printed("violation")

C4_Witness ==
    /\ Verified
    /\ addr_ok = Some(TRUE)
    /\ topic_ok = Some(FALSE)
    /\ count = Some(3)
    /\ Printed("violation")

\* C5: in a verified run, present with a count of zero gives the
\* false-positive message and not the violation warning; no run prints both.
C5_FalsePositiveInformational ==
    /\ (Verified /\ AnyPresent /\ count[1] = 0)
           => (Printed("false_positive") /\ ~Printed("violation"))
    /\ ~(Printed("violation") /\ Printed("false_positive"))

C5_Witness ==
    /\ Verified
    /\ addr_ok = Some(TRUE)
    /\ topic_ok = None
    /\ count = Some(0)
    /\ Printed("false_positive")
    /\ ~Printed("violation")

\* C6 as stated: in a verified run, present with count > 0, or absent with
\* count = 0, raises no flag, also when both candidates are tested and only
\* one of them is the present (or the absent) one.
C6_Original ==
    (Verified /\ ((AnyPresent /\ count[1] > 0) \/ (AnyAbsent /\ count[1] = 0)))
        => (~Printed("violation") /\ ~Printed("false_positive"))

\* C6 as amended: no flag is raised when every tested candidate is present
\* and count > 0, or every tested candidate is absent and count = 0; when one
\* tested candidate is present and the other absent, a count of zero gives the
\* false-positive message and a count above zero the violation warning.
C6_ConsistentNoFlag ==
    Verified =>
        /\ ((AnyPresent /\ ~AnyAbsent /\ count[1] > 0) \/ (AnyAbsent /\ ~AnyPresent /\ count[1] = 0))
               => (~Printed("violation") /\ ~Printed("false_positive"))
        /\ (AnyPresent /\ AnyAbsent /\ count[1] = 0)
               => (Printed("false_positive") /\ ~Printed("violation"))
        /\ (AnyPresent /\ AnyAbsent /\ count[1] > 0)
               => (Printed("violation") /\ ~Printed("false_positive"))

C6_Witness ==
    /\ Verified
    /\ addr_ok = Some(FALSE)
    /\ topic_ok = Some(FALSE)
    /\ count = Some(0)
    /\ ~Printed("violation")
    /\ ~Printed("false_positive")

\* the textual forms C8 calls bad.  (An unprefixed address counts as bad only
\* when the address library rejects it.)
BadAddressText(s) ==
    \/ ~startswith(s, Prefix0x) /\ ~lib_bare_ok
    \/ ~IsHex(IF startswith(s, Prefix0x) THEN From2(s) ELSE s)
    \/ Len(IF startswith(s, Prefix0x) THEN From2(s) ELSE s) # 2 * 20

BadTopicText(s) ==
    \/ ~startswith(s, Prefix0x)
    \/ ~IsHex(From2(s))
    \/ Len(From2(s)) # 2 * 32

BadCandidate ==
    \/ Truthy(args.address) /\ BadAddressText(args.address[1])
    \/ Truthy(args.topic0) /\ BadTopicText(args.topic0[1])

\* C8: a candidate in a bad textual form (no 0x prefix, malformed hex, wrong
\* byte length) ends the query with an input-format error: no membership
\* result is printed, no count is fetched, no classification is made, and the
\* run does not end with status 0.
C8_BadInputRejected ==
    BadCandidate =>
        /\ exit_code # Some(0)
        /\ ~Printed("address_present") /\ ~Printed("address_not_set")
        /\ ~Printed("topic0_present") /\ ~Printed("topic0_not_set")
        /\ count = None
        /\ ~Printed("violation") /\ ~Printed("false_positive")

(***************************************************************************)
(* Properties of the membership test (SpecBloom)                           *)
(***************************************************************************)
Checked == last.checked
Wide(n) == \E b \in n : b >= FieldBits
LowBits(n) == {b \in n : b < FieldBits}
InsertedBits == UNION {ChainIndexes(keccak[c]) : c \in inserted}

\* C1: a candidate whose three bits the chain set in the field (whatever other
\* bits are set, and whether or not indices collide or repeat) tests true.
C1_NoFalseNegative ==
    (Checked /\ last.data \in inserted) => last.res = TRUE

C1_Witness ==
    /\ Checked
    /\ last.data \in inserted
    /\ last.res = TRUE
    /\ \E c \in inserted \ {last.data} :
           ChainIndexes(keccak[c]) \cap ChainIndexes(keccak[last.data]) # {}
    /\ Cardinality(ChainIndexes(keccak[last.data])) < NumIndexes

\* C2: bloom_check is true exactly when every derived index is a set bit of
\* the field; the early return and a repeated index change nothing.
C2_AllThreeBits ==
    Checked =>
        /\ Len(last.idxs) = NumIndexes
        /\ last.res = (\A idx \in {last.idxs[i] : i \in 1..Len(last.idxs)} : idx \in bloom_int)

C2_Witness ==
    /\ Checked
    /\ last.res = FALSE
    /\ last.idxs[1] \in bloom_int
    /\ last.idxs[2] \in bloom_int
    /\ last.idxs[3] \notin bloom_int

\* C3: bloom_indexes returns exactly 3 integers in [0, 2047], the i-th being
\* the big-endian 16-bit value of hash bytes 2i, 2i+1 modulo 2048, duplicates
\* kept, for every byte string including the empty one.
C3_IndexesShape ==
    Checked =>
        /\ Len(last.idxs) = 3
        /\ \A i \in 1..3 :
               /\ last.idxs[i] \in 0..2047
               /\ last.idxs[i] =
                      (keccak[last.data][2 * i - 1] * 256 + keccak[last.data][2 * i]) % 2048

C3_Witness ==
    /\ Checked
    /\ last.data = EmptyBytes
    /\ last.idxs[1] = last.idxs[3]
    /\ keccak[last.data][1] * 256 + keccak[last.data][2] >= 2048

\* C7 as stated: the membership test raises an invalid-input error exactly
\* when the field is wider than 2048 bits.
C7_Original ==
    Checked => (last.raised <=> Wide(bloom_int))

\* C7 as amended: the membership test never raises, whatever the width of the
\* field; on a field wider than 2048 bits it answers as on its low 2048 bits.
C7_NeverRaises ==
    Checked =>
        /\ ~last.raised
        /\ last.res = (\A i \in 1..NumIndexes : last.idxs[i] \in LowBits(bloom_int))

C7_Witness ==
    /\ Checked
    /\ Wide(bloom_int)
    /\ last.res = TRUE

\* C9: a candidate that was not inserted, whose derived indices are all among
\* the bits set for the inserted ones, tests true: false positives happen.
C9_FalsePositive ==
    (/\ Checked
     /\ last.data \notin inserted
     /\ ChainIndexes(keccak[last.data]) \subseteq InsertedBits)
        => last.res = TRUE

C9_Witness ==
    /\ Checked
    /\ last.data \notin inserted
    /\ noise = {}
    /\ Len(logsBloom) = FieldBytes
    /\ \A c \in inserted : keccak[c] # keccak[last.data]
    /\ last.res = TRUE

\* C10: the 256-byte field is read big-endian: bit idx of the integer is bit
\* idx mod 8 of byte 255 - idx div 8 (bytes counted from 0), for every idx in
\* [0, 2047], and the integer is below 2^2048.
C10_BigEndian ==
    (pc = "query" /\ Len(logsBloom) = FieldBytes) =>
        /\ \A idx \in 0..(FieldBits - 1) :
               (And1(ShiftRight(bloom_int, idx)) = 1)
                   <=> (BitOf(logsBloom[(255 - (idx \div 8)) + 1], idx % 8) = 1)
        /\ ~Wide(bloom_int)

C10_Witness ==
    /\ pc = "query"
    /\ Len(logsBloom) = FieldBytes
    /\ {0, 900, 2047} \subseteq bloom_int

=============================================================================
